---------------------------- MODULE Spec2Model ----------------------------
(***************************************************************************)
(* Model of go-gpmctl: a client of the gpm console mouse daemon.  NewGPM   *)
(* dials /dev/gpmctl and writes the 16-byte Gpm_Connect record, Read takes *)
(* one transport read into a 28-byte buffer and decodes a Gpm_Event from   *)
(* it, Close closes the socket, and the String methods render the flag     *)
(* sets and the event as text.                                             *)
(*                                                                         *)
(* Byte buffers are sequences of 0..255 (Go offset k is index k+1).        *)
(* Integers carry their Go width through the To* conversions.  A value     *)
(* that may exceed 31 bits (a uint32, or an int of a 64-bit build holding  *)
(* one) is kept as its two 16-bit halves [hi, lo], worth hi * 65536 + lo.  *)
(* Go's int is 32 or 64 bits wide, as the build has it (intSize).          *)
(***************************************************************************)
EXTENDS Integers, Sequences, FiniteSets, TLC

VARIABLES
    nativeEndian,   \* the package variable set by init()
    intSize,        \* the width of Go's int on this build: 32 or 64
    ospid,          \* os.Getpid() of the process
    conf,           \* argument of the latest NewGPM call
    c,              \* the socket of the latest NewGPM call: "nil", "open", "closed"
    g,              \* the *GPM the caller holds: NoGPM or [tty, pid]
    sent,           \* bytes the client has written to the socket
    stream,         \* bytes the daemon has sent on the socket so far
    taken,          \* how many bytes of stream the client's reads have consumed
    peerClosed,     \* the daemon has closed its end
    b,              \* the buffer of the latest Read call on this connection
    ret,            \* what the latest call returned
    reads,          \* number of Read calls on this connection that returned no error
    calls,          \* number of Read calls made on this connection
    conns,          \* number of NewGPM calls so far
    seen,           \* per record the daemon can send: how often (up to 2) a Read got
                    \* exactly these 28 bytes, and the Event the first such Read returned
    rd,             \* what the latest g.c.Read on this connection returned: [n, err]
    text,           \* the latest line logged for this connection (log.Printf("%s", event))
    val,            \* a flag-set value handed to a String method: [kind, v]
    renders,        \* number of String calls made on val
    ops,            \* the calls the latest NewGPM, Read or Close made on the socket
    call            \* the NewGPM call in progress: where it stands, its tty and err

vars == <<nativeEndian, intSize, ospid, conf, c, g, sent, stream, taken, peerClosed,
          b, ret, reads, calls, conns, seen, rd, text, val, renders, ops, call>>

-----------------------------------------------------------------------------
(* Sizes of the two wire records.                                          *)

ConnectSize == 16
EventSize == 28

-----------------------------------------------------------------------------
(* Go integer conversions (two's complement wrap-around).                  *)

\* uint8(v), uint16(v), int16(v) of an integer v
ToUint8(v) == v % 256
ToUint16(v) == v % 65536
ToInt16(v) == IF v % 65536 >= 32768 THEN (v % 65536) - 65536 ELSE v % 65536

\* uint32(v) of an int v, as halves
ToUint32(v) == [hi |-> (v \div 65536) % 65536, lo |-> v % 65536]

\* An int64, or an int, that may need more than 31 bits (the terminal
\* number) is kept as the four 16-bit limbs of its 64-bit two's complement,
\* most significant first.
ZeroInt64 == <<0, 0, 0, 0>>
MaxInt64 == <<32767, 65535, 65535, 65535>>
MinInt64 == <<32768, 0, 0, 0>>
\* the largest uint64, as limbs
MaxUint64 == <<65535, 65535, 65535, 65535>>

\* the limbs of an integer 0 <= v < 2^31
Int64Of(v) == <<0, 0, v \div 65536, v % 65536>>

\* int(v) of an int64 v on a build with the given int width: at 32 bits the
\* low 32 bits, sign-extended
Int64ToInt(size, v) ==
    IF size = 64 THEN v
    ELSE LET sign == IF v[3] >= 32768 THEN 65535 ELSE 0
         IN  <<sign, sign, v[3], v[4]>>

\* uint32(v) of an int v given as limbs
Int64ToUint32(v) == [hi |-> v[3], lo |-> v[4]]

\* uint16(w) as it would be if it kept the high half of the word
Uint32ToUint16_HighHalf(w) == w.hi

\* uint16(w) of a uint32 w
Uint32ToUint16(w) == w.lo

\* int32(w) of a uint32 w: an integer in -2^31 .. 2^31 - 1
Uint32ToInt32(w) == ToInt16(w.hi) * 65536 + w.lo

\* the widths Go's int has: 32 bits on 386, arm and mips, 64 bits on amd64,
\* arm64 and s390x
IntSizes == {32, 64}

\* conversion of a uint32 w to Go's int of the given width, as halves worth
\* hi * 65536 + lo: at 64 bits every uint32 value is kept, at 32 bits a word
\* of 2^31 or more wraps to word - 2^32 (hi is then negative)
Uint32ToInt(size, w) ==
    IF size = 64 THEN [hi |-> w.hi, lo |-> w.lo]
    ELSE [hi |-> ToInt16(w.hi), lo |-> w.lo]

\* Go's x & y for an int x (two's complement) and a non-negative y
RECURSIVE BitAnd(_, _)
BitAnd(x, y) ==
    IF y = 0 THEN 0 ELSE (x % 2) * (y % 2) + 2 * BitAnd(x \div 2, y \div 2)

\* Go's x & y for an int x held as halves and a non-negative y below 2^31
BitAndInt(x, y) == BitAnd(x.lo, y % 65536) + 65536 * BitAnd(x.hi, y \div 65536)

\* Go's buf[off:]
SliceFrom(buf, off) == SubSeq(buf, off + 1, Len(buf))

-----------------------------------------------------------------------------
(* encoding/binary's ByteOrder values, as used through nativeEndian.       *)

LittleEndian == "LittleEndian"
BigEndian == "BigEndian"

\* order.PutUint16(buf, v): buf with its first two bytes overwritten
PutUint16(order, buf, v) ==
    IF order = LittleEndian
    THEN [buf EXCEPT ![1] = v % 256, ![2] = (v \div 256) % 256]
    ELSE [buf EXCEPT ![1] = (v \div 256) % 256, ![2] = v % 256]

\* PutUint32 as it would be if it always wrote least-significant byte first
PutUint32_AlwaysLittle(order, buf, w) ==
    [buf EXCEPT ![1] = w.lo % 256, ![2] = w.lo \div 256,
                ![3] = w.hi % 256, ![4] = w.hi \div 256]

\* order.PutUint32(buf, w)
PutUint32(order, buf, w) ==
    IF order = LittleEndian
    THEN [buf EXCEPT ![1] = w.lo % 256, ![2] = w.lo \div 256,
                     ![3] = w.hi % 256, ![4] = w.hi \div 256]
    ELSE [buf EXCEPT ![1] = w.hi \div 256, ![2] = w.hi % 256,
                     ![3] = w.lo \div 256, ![4] = w.lo % 256]

\* order.Uint16(buf)
Uint16(order, buf) ==
    IF order = LittleEndian THEN buf[1] + 256 * buf[2] ELSE buf[2] + 256 * buf[1]

\* order.Uint32(buf)
Uint32(order, buf) ==
    IF order = LittleEndian
    THEN [hi |-> buf[3] + 256 * buf[4], lo |-> buf[1] + 256 * buf[2]]
    ELSE [hi |-> buf[2] + 256 * buf[1], lo |-> buf[4] + 256 * buf[3]]

\* the two bytes the host stores for *(*uint16)(unsafe.Pointer(&buf[0])) = v
Hosts == {"little", "big"}
StoreUint16(host, v) ==
    IF host = "little" THEN <<v % 256, v \div 256>> ELSE <<v \div 256, v % 256>>

\* init(): probe the host's byte order with 0xABCD
init(host) ==
    LET buf == StoreUint16(host, 43981)
    IN  IF buf = <<205, 171>> THEN LittleEndian
        ELSE IF buf = <<171, 205>> THEN BigEndian
        ELSE LittleEndian

-----------------------------------------------------------------------------
(* Text: strings.Join and the decimal formatting fmt applies to integers.  *)

\* strings.Join(s, sep)
RECURSIVE Join(_, _)
Join(s, sep) ==
    IF Len(s) = 0 THEN ""
    ELSE IF Len(s) = 1 THEN s[1]
    ELSE s[1] \o sep \o Join(Tail(s), sep)

Digit(d) == <<"0", "1", "2", "3", "4", "5", "6", "7", "8", "9">>[d + 1]

RECURSIVE FormatNat(_)
FormatNat(n) == IF n < 10 THEN Digit(n) ELSE FormatNat(n \div 10) \o Digit(n % 10)

\* fmt's %v of an integer value in -2^31 .. 2^31 - 1
FormatInt(n) ==
    IF n >= 0 THEN FormatNat(n)
    ELSE LET d == (10 - (n % 10)) % 10          \* last digit of -n
             rest == 0 - ((n + d) \div 10)      \* the digits before it
         IN  "-" \o (IF rest = 0 THEN "" ELSE FormatNat(rest)) \o Digit(d)

-----------------------------------------------------------------------------
(* type Buttons uint8 and its String method.                               *)

B_NONE == 0
B_RIGHT == 1
B_MIDDLE == 2
B_LEFT == 4
B_FOURTH == 8
B_UP == 16
B_DOWN == 32

\* the statement as it would be if it put the label in front
AppendIf_Prepend(s, v, flag, label) == IF BitAnd(v, flag) > 0 THEN <<label>> \o s ELSE s

\* one "if v&flag > 0 { s = append(s, label) }" statement
AppendIf(s, v, flag, label) == IF BitAnd(v, flag) > 0 THEN Append(s, label) ELSE s

ButtonsString(v) ==
    LET s0 == << >>
        s1 == AppendIf(s0, v, B_NONE, "none")
        s2 == AppendIf(s1, v, B_RIGHT, "right")
        s3 == AppendIf(s2, v, B_MIDDLE, "middle")
        s4 == AppendIf(s3, v, B_LEFT, "left")
        s5 == AppendIf(s4, v, B_FOURTH, "fourth")
        s6 == AppendIf(s5, v, B_UP, "up")
        s7 == AppendIf(s6, v, B_DOWN, "down")
    IN  Join(s7, ",")

-----------------------------------------------------------------------------
(* type EventType uint16 and its String method.                            *)

MOVE == 1
DRAG == 2
DOWN == 4
UP == 8
SINGLE == 16
DOUBLE == 32
TRIPLE == 64
MFLAG == 128
HARD == 256
ENTER == 512
LEAVE == 1024

\* ^uint16(0)
AllOnes16 == 65535

ANY == AllOnes16

EventTypeString(v) ==
    LET s0 == << >>
        s1 == AppendIf(s0, v, MOVE, "move")
        s2 == AppendIf(s1, v, DRAG, "drag")
        s3 == AppendIf(s2, v, DOWN, "down")
        s4 == AppendIf(s3, v, UP, "up")
        s5 == AppendIf(s4, v, SINGLE, "single")
        s6 == AppendIf(s5, v, DOUBLE, "double")
        s7 == AppendIf(s6, v, TRIPLE, "triple")
        s8 == AppendIf(s7, v, MFLAG, "mflag")
        s9 == AppendIf(s8, v, HARD, "hard")
        s10 == AppendIf(s9, v, ENTER, "enter")
        s11 == AppendIf(s10, v, LEAVE, "leave")
    IN  Join(s11, ",")

-----------------------------------------------------------------------------
(* type Margin int and its String method.                                  *)

TOP == 1
BOT == 2
LFT == 4
RGT == 8

\* one "if m&flag > 0 { s = append(s, label) }" statement on a Margin
AppendIfInt(s, m, flag, label) == IF BitAndInt(m, flag) > 0 THEN Append(s, label) ELSE s

MarginString(m) ==
    LET s0 == << >>
        s1 == AppendIfInt(s0, m, TOP, "top")
        s2 == AppendIfInt(s1, m, BOT, "bot")
        s3 == AppendIfInt(s2, m, LFT, "lft")
        s4 == AppendIfInt(s3, m, RGT, "rgt")
    IN  Join(s4, ",")

-----------------------------------------------------------------------------
(* type Event and its String method.                                       *)

\* Event{}
ZeroEvent ==
    [Buttons |-> 0, Modifiers |-> 0, VC |-> 0, DX |-> 0, DY |-> 0, X |-> 0, Y |-> 0,
     Type |-> 0, Clicks |-> 0, Margin |-> [hi |-> 0, lo |-> 0], WDX |-> 0, WDY |-> 0]

EventString(event) ==
    "type:" \o EventTypeString(event.Type)
    \o "[buttons:" \o ButtonsString(event.Buttons)
    \o ", modifiers:" \o FormatInt(event.Modifiers)
    \o ", vc:" \o FormatInt(event.VC)
    \o "] x:" \o FormatInt(event.X)
    \o "[dx:" \o FormatInt(event.DX)
    \o "] y:" \o FormatInt(event.Y)
    \o "[dy:" \o FormatInt(event.DY)
    \o "], clicks:" \o FormatInt(event.Clicks)
    \o " margin:" \o MarginString(event.Margin)
    \o ", wdx:" \o FormatInt(event.WDX)
    \o ", wdy:" \o FormatInt(event.WDY)

-----------------------------------------------------------------------------
(* The Gpm_Connect record NewGPM builds, and the Event Read builds.        *)

\* make([]byte, n)
MakeBytes(n) == [i \in 1..n |-> 0]

\* the effect on buf of order.PutUint16(buf[off:], v)
PutUint16At(order, buf, off, v) ==
    SubSeq(buf, 1, off) \o PutUint16(order, SliceFrom(buf, off), v)

\* the effect on buf of order.PutUint32(buf[off:], v)
PutUint32At(order, buf, off, v) ==
    SubSeq(buf, 1, off) \o PutUint32(order, SliceFrom(buf, off), v)

\* var DefaultConf
DefaultConf ==
    [EventMask |-> AllOnes16, DefaultMask |-> AllOnes16, MinMod |-> 0, MaxMod |-> AllOnes16]

\* NewGPM, the lines that fill gpmConnect
EncodeConnect(order, cf, pid, tty) ==
    LET b0 == MakeBytes(ConnectSize)
        b1 == PutUint16At(order, b0, 0, ToUint16(cf.EventMask))
        b2 == PutUint16At(order, b1, 2, ToUint16(cf.DefaultMask))
        b3 == PutUint16At(order, b2, 4, cf.MinMod)
        b4 == PutUint16At(order, b3, 6, cf.MaxMod)
        b5 == PutUint32At(order, b4, 8, ToUint32(pid))
        b6 == PutUint32At(order, b5, 12, Int64ToUint32(tty))
    IN  b6

\* Read, the Event literal built from the buffer
DecodeEvent(order, size, buf) ==
    [Buttons   |-> ToUint8(Uint16(order, SliceFrom(buf, 0))),
     Modifiers |-> ToUint8(Uint16(order, SliceFrom(buf, 1))),
     VC        |-> Uint16(order, SliceFrom(buf, 2)),
     DX        |-> ToInt16(Uint16(order, SliceFrom(buf, 4))),
     DY        |-> ToInt16(Uint16(order, SliceFrom(buf, 6))),
     X         |-> ToInt16(Uint16(order, SliceFrom(buf, 8))),
     Y         |-> ToInt16(Uint16(order, SliceFrom(buf, 10))),
     Type      |-> Uint32ToUint16(Uint32(order, SliceFrom(buf, 12))),
     Clicks    |-> Uint32ToInt32(Uint32(order, SliceFrom(buf, 16))),
     Margin    |-> Uint32ToInt(size, Uint32(order, SliceFrom(buf, 20))),
     WDX       |-> ToInt16(Uint16(order, SliceFrom(buf, 24))),
     WDY       |-> ToInt16(Uint16(order, SliceFrom(buf, 26)))]

-----------------------------------------------------------------------------
(* getTTY: the terminal number from the target of /proc/self/fd/0.         *)
(* A string is a sequence of runes: an ASCII rune is the one-character     *)
(* string, a rune outside ASCII is named by its code point ("U+0663").     *)

\* the runes of category Nd among the runes outside ASCII that the model's
\* strings use: ARABIC-INDIC DIGIT THREE, DEVANAGARI DIGIT ONE, FULLWIDTH
\* DIGIT FOUR.  The others, U+00B2 SUPERSCRIPT TWO (No), U+00E9 (Ll) and
\* U+2163 ROMAN NUMERAL FOUR (Nl), are not in the table.
NdRunes == {"U+0663", "U+0967", "U+FF14"}

\* '0' <= r && r <= '9'
IsASCIIDigit(ch) == ch \in {"0", "1", "2", "3", "4", "5", "6", "7", "8", "9"}

\* unicode.IsDigit(r): the ASCII digits up to Latin-1, the Nd table above it
IsDigit(ch) == IsASCIIDigit(ch) \/ ch \in NdRunes

DigitValue(ch) == CHOOSE d \in 0..9 : Digit(d) = ch

\* path.Base
RECURSIVE StripSlashes(_)
StripSlashes(p) ==
    IF Len(p) > 0 /\ p[Len(p)] = "/" THEN StripSlashes(SubSeq(p, 1, Len(p) - 1)) ELSE p

RECURSIVE AfterLastSlash(_)
AfterLastSlash(p) ==
    IF \E i \in 1..Len(p) : p[i] = "/" THEN AfterLastSlash(Tail(p)) ELSE p

Base(p) ==
    IF Len(p) = 0 THEN <<".">>
    ELSE LET q == AfterLastSlash(StripSlashes(p))
         IN  IF Len(q) = 0 THEN <<"/">> ELSE q

\* strings.TrimFunc(s, func(r) bool { return !unicode.IsDigit(r) })
RECURSIVE TrimLeftNonDigits(_)
TrimLeftNonDigits(s) ==
    IF Len(s) > 0 /\ ~IsDigit(s[1]) THEN TrimLeftNonDigits(Tail(s)) ELSE s

RECURSIVE TrimRightNonDigits(_)
TrimRightNonDigits(s) ==
    IF Len(s) > 0 /\ ~IsDigit(s[Len(s)])
    THEN TrimRightNonDigits(SubSeq(s, 1, Len(s) - 1)) ELSE s

TrimNonDigits(s) == TrimRightNonDigits(TrimLeftNonDigits(s))

\* n*10 + d on a 64-bit unsigned n given as limbs; over: the result is
\* above 2^64 - 1
MulAdd10(n, d) ==
    LET t4 == n[4] * 10 + d
        t3 == n[3] * 10 + t4 \div 65536
        t2 == n[2] * 10 + t3 \div 65536
        t1 == n[1] * 10 + t2 \div 65536
    IN  [w |-> <<t1 % 65536, t2 % 65536, t3 % 65536, t4 % 65536>>, over |-> t1 >= 65536]

\* the loop of strconv.ParseUint(s, 10, 64) from rune i on, n being the value
\* of the digits before it: it stops at the first rune that is no ASCII
\* digit (syntax) or at the first digit that takes the value above
\* 2^64 - 1 (range), whichever comes first
RECURSIVE ParseUintFrom(_, _, _)
ParseUintFrom(s, i, n) ==
    IF i > Len(s) THEN [err |-> "nil", w |-> n]
    ELSE IF ~IsASCIIDigit(s[i]) THEN [err |-> "syntax", w |-> ZeroInt64]
    ELSE LET m == MulAdd10(n, DigitValue(s[i]))
         IN  IF m.over THEN [err |-> "range", w |-> MaxUint64]
             ELSE ParseUintFrom(s, i + 1, m.w)

\* strconv.ParseUint(s, 10, 64)
ParseUint(s) ==
    IF Len(s) = 0 THEN [err |-> "syntax", w |-> ZeroInt64]
    ELSE ParseUintFrom(s, 1, ZeroInt64)

\* -v of a 64-bit integer given as limbs
Negate64(v) ==
    LET t4 == (65535 - v[4]) + 1
        t3 == (65535 - v[3]) + t4 \div 65536
        t2 == (65535 - v[2]) + t3 \div 65536
        t1 == (65535 - v[1]) + t2 \div 65536
    IN  <<t1 % 65536, t2 % 65536, t3 % 65536, t4 % 65536>>

\* strconv.ParseInt(s, 10, 64): an optional sign, then ParseUint; err is
\* "nil", "syntax" or "range", v the int64 returned with it
ParseInt(s) ==
    LET neg == Len(s) > 0 /\ s[1] = "-"
        digits == IF Len(s) > 0 /\ s[1] \in {"+", "-"} THEN Tail(s) ELSE s
        un == ParseUint(digits)
    IN  IF Len(s) = 0 \/ un.err = "syntax"
        THEN [err |-> "syntax", v |-> ZeroInt64]
        ELSE IF ~neg /\ un.w[1] >= 32768
        THEN [err |-> "range", v |-> MaxInt64]
        ELSE IF neg /\ un.w[1] >= 32768 /\ un.w # MinInt64
        THEN [err |-> "range", v |-> MinInt64]
        ELSE [err |-> "nil", v |-> IF neg THEN Negate64(un.w) ELSE un.w]

\* getTTY on a build with the given int width, given what os.Readlink(fd0)
\* returned
getTTY(size, link) ==
    IF link.err THEN [err |-> TRUE, tty |-> ZeroInt64]
    ELSE LET stty == TrimNonDigits(Base(link.dest))
             tty == ParseInt(stty)
         IN  IF tty.err # "nil" THEN [err |-> TRUE, tty |-> ZeroInt64]
             ELSE [err |-> FALSE, tty |-> Int64ToInt(size, tty.v)]

-----------------------------------------------------------------------------
(* Bounds and input sets.                                                  *)

MaxRecords == 2     \* records the daemon sends on one connection
MaxCalls == 3       \* Read calls on one connection
MaxConns == 2       \* NewGPM calls of the process
MaxRenders == 2     \* String calls on one value

\* the bytes of a Gpm_Event as the daemon's C struct lays them out
GpmEvent(order, buttons, modifiers, vc, dx, dy, x, y, type, clicks, margin, wdx, wdy) ==
    LET r0 == <<buttons % 256, modifiers % 256>> \o MakeBytes(EventSize - 2)
        r1 == PutUint16At(order, r0, 2, vc % 65536)
        r2 == PutUint16At(order, r1, 4, dx % 65536)
        r3 == PutUint16At(order, r2, 6, dy % 65536)
        r4 == PutUint16At(order, r3, 8, x % 65536)
        r5 == PutUint16At(order, r4, 10, y % 65536)
        r6 == PutUint32At(order, r5, 12, ToUint32(type))
        r7 == PutUint32At(order, r6, 16, ToUint32(clicks))
        r8 == PutUint32At(order, r7, 20, ToUint32(margin))
        r9 == PutUint16At(order, r8, 24, wdx % 65536)
        r10 == PutUint16At(order, r9, 26, wdy % 65536)
    IN  r10

\* the first event of the package documentation: a move to x 190, y 28 with dy 1
MoveRecord(order) == GpmEvent(order, 0, 0, 0, 0, 1, 190, 28, MOVE, 0, 0, 0, 0)

\* a record whose 28 bytes are all different
RampRecord == [i \in 1..EventSize |-> i]

\* a left-button drag to the left with negative deltas, on the right margin
DragRecord(order) ==
    GpmEvent(order, B_LEFT, 1, 4, -1, -2, 189, 29, DRAG + SINGLE + MFLAG, -1, RGT, 0, -1)

\* what the daemon sends in the connection model
StreamRecords == {MoveRecord(LittleEndian), RampRecord}

\* the targets os.Readlink("/proc/self/fd/0") returns in the connection model
Links ==
    {[err |-> TRUE, dest |-> << >>],
     [err |-> FALSE, dest |-> <<"/", "d", "e", "v", "/", "t", "t", "y", "4">>],
     [err |-> FALSE, dest |-> <<"/", "d", "e", "v", "/", "n", "u", "l", "l">>],
     [err |-> FALSE, dest |-> <<"/", "t", "m", "p", "/", "U+0663", "4">>]}

\* what c.Write(gpmConnect) returns: all 16 bytes, or an error after n < 16 bytes
WriteResults ==
    {[n |-> ConnectSize, err |-> "nil"], [n |-> 0, err |-> "write"], [n |-> 7, err |-> "write"]}

\* What os.Readlink and net.Dial return to one NewGPM, <<link, dialErr>>.
\* After a getTTY error NewGPM does not dial: the entry of the Dial it does
\* not make is the fixed "no error".
DialResults(links) ==
    {x \in links \X BOOLEAN : (\E size \in IntSizes : getTTY(size, x[1]).err) => ~x[2]}

NewGPMResults == DialResults(Links)

\* the configurations passed to NewGPM in the connection model
Confs == {DefaultConf}

NoGPM == [set |-> FALSE, tty |-> ZeroInt64, pid |-> 0]
NoReturn == [op |-> "none", err |-> "nil", gpm |-> FALSE, e |-> ZeroEvent]
NoRead == [n |-> 0, err |-> "nil"]
NoVal == [kind |-> "none", v |-> 0]
NoCall == [pc |-> "idle", tty |-> ZeroInt64, err |-> "nil"]

-----------------------------------------------------------------------------
(* The process: start-up, NewGPM, Read, Close, and the caller's logging.   *)

\* Program start on any build: init() has probed the byte order.
Platform ==
    /\ \E host \in Hosts : nativeEndian = init(host)
    /\ intSize \in IntSizes

\* Program start on the builds of the connection model: one per byte order
\* and per int width, little-endian with 64-bit int (amd64) and big-endian
\* with 32-bit int (mips)
ConnPlatform ==
    \/ nativeEndian = init("little") /\ intSize = 64
    \/ nativeEndian = init("big") /\ intSize = 32

Idle ==
    /\ conf = DefaultConf
    /\ c = "nil"
    /\ g = NoGPM
    /\ sent = << >>
    /\ stream = << >>
    /\ taken = 0
    /\ peerClosed = FALSE
    /\ b = MakeBytes(EventSize)
    /\ ret = NoReturn
    /\ reads = 0
    /\ calls = 0
    /\ conns = 0
    /\ seen = [rec \in StreamRecords |-> [n |-> 0, e |-> ZeroEvent]]
    /\ rd = NoRead
    /\ text = ""
    /\ val = NoVal
    /\ renders = 0
    /\ ops = << >>
    /\ call = NoCall

Init ==
    /\ ConnPlatform
    /\ ospid = 1234
    /\ Idle

\* NewGPM(conf) runs in three steps, one for each wait: up to the return of
\* net.Dial, up to the return of c.Write, and the c.Close() after a failed
\* Write.  The caller assigns the result to its one handle
\* (g, err = NewGPM(conf)): from the call on c, sent and the stream are those
\* of the new call, g is NoGPM and ret is NoReturn until it returns, and the
\* socket of a handle it replaced is out of its reach and not followed.

\* getTTY() and net.Dial, given what os.Readlink and net.Dial returned
NewGPMDial(cf, link, dialErr) ==
    /\ call.pc = "idle"
    /\ conns < MaxConns
    /\ conns' = conns + 1
    /\ conf' = cf
    /\ sent' = << >>
    /\ stream' = << >>
    /\ taken' = 0
    /\ peerClosed' = FALSE
    /\ reads' = 0
    /\ calls' = 0
    /\ b' = MakeBytes(EventSize)
    /\ rd' = NoRead
    /\ text' = ""
    /\ g' = NoGPM
    /\ LET t == getTTY(intSize, link)
       IN  IF t.err
           THEN /\ c' = "nil"
                /\ ret' = [op |-> "NewGPM", err |-> "tty", gpm |-> FALSE, e |-> ZeroEvent]
                /\ ops' = << >>
                /\ call' = NoCall
           ELSE IF dialErr
           THEN /\ c' = "nil"
                /\ ret' = [op |-> "NewGPM", err |-> "dial", gpm |-> FALSE, e |-> ZeroEvent]
                /\ ops' = <<"Dial">>
                /\ call' = NoCall
           ELSE /\ c' = "open"
                /\ ret' = NoReturn
                /\ ops' = <<"Dial">>
                /\ call' = [pc |-> "dialed", tty |-> t.tty, err |-> "nil"]
    /\ UNCHANGED <<nativeEndian, intSize, ospid, seen, val, renders>>

\* os.Getpid(), the sixteen bytes and c.Write, given what c.Write returned;
\* without an error NewGPM returns the handle
NewGPMWrite(w) ==
    /\ call.pc = "dialed"
    /\ LET tty == call.tty
           pid == ospid
           gpmConnect == EncodeConnect(nativeEndian, conf, pid, tty)
       IN  /\ sent' = SubSeq(gpmConnect, 1, w.n)
           /\ ops' = Append(ops, "Write")
           /\ IF w.err # "nil"
              THEN /\ call' = [call EXCEPT !.pc = "failed", !.err = w.err]
                   /\ UNCHANGED <<g, ret>>
              ELSE /\ call' = NoCall
                   /\ g' = [set |-> TRUE, tty |-> tty, pid |-> pid]
                   /\ ret' = [op |-> "NewGPM", err |-> "nil", gpm |-> TRUE, e |-> ZeroEvent]
    /\ UNCHANGED <<nativeEndian, intSize, ospid, conf, c, stream, taken, peerClosed,
                   b, reads, calls, conns, seen, rd, text, val, renders>>

\* the failed Write's c.Close() as it would be if the socket were left open
NewGPMClose_LeavesOpen ==
    /\ call.pc = "failed"
    /\ ret' = [op |-> "NewGPM", err |-> call.err, gpm |-> FALSE, e |-> ZeroEvent]
    /\ call' = NoCall
    /\ UNCHANGED <<nativeEndian, intSize, ospid, conf, c, g, sent, stream, taken, peerClosed,
                   b, reads, calls, conns, seen, rd, text, val, renders, ops>>

\* c.Close() and the return of the error, after a failed Write
NewGPMClose ==
    /\ call.pc = "failed"
    /\ c' = "closed"
    /\ ops' = Append(ops, "Close")
    /\ ret' = [op |-> "NewGPM", err |-> call.err, gpm |-> FALSE, e |-> ZeroEvent]
    /\ call' = NoCall
    /\ UNCHANGED <<nativeEndian, intSize, ospid, conf, g, sent, stream, taken, peerClosed,
                   b, reads, calls, conns, seen, rd, text, val, renders>>

\* the byte counts a successful transport read delivers in the model: one
\* byte, one byte short of a record, a whole record
ChunkSizes == {1, EventSize - 1, EventSize}

\* What one g.c.Read(b) on a 28-byte buffer can return: on a closed socket an
\* error; else whatever part of the pending bytes the kernel hands over (at
\* least one byte, at most 28); end of stream once the daemon has closed and
\* nothing is pending; or an I/O failure.  With nothing pending it blocks.
TransportReads ==
    IF c = "closed" THEN {[n |-> 0, err |-> "closed"]}
    ELSE LET avail == Len(stream) - taken
         IN  {[n |-> k, err |-> "nil"] : k \in {k \in ChunkSizes : k <= avail}}
             \cup (IF avail = 0 /\ peerClosed THEN {[n |-> 0, err |-> "EOF"]} ELSE {})
             \cup {[n |-> 0, err |-> "io"]}

\* the buffer b after the transport stored r.n bytes in it
Filled(r) ==
    [i \in 1..EventSize |-> IF i <= r.n THEN stream[taken + i] ELSE 0]

\* Read as it would be if a failed transport read were tried once more
Read_RetriesOnError(r) ==
    /\ g.set
    /\ calls < MaxCalls
    /\ r \in TransportReads
    /\ calls' = calls + 1
    /\ rd' = r
    /\ b' = Filled(r)
    /\ taken' = taken + r.n
    /\ ops' = IF r.err # "nil" THEN <<"Read", "Read">> ELSE <<"Read">>
    /\ IF r.err # "nil"
       THEN /\ ret' = [op |-> "Read", err |-> r.err, gpm |-> FALSE, e |-> ZeroEvent]
            /\ UNCHANGED <<reads, seen>>
       ELSE LET e == DecodeEvent(nativeEndian, intSize, Filled(r))
            IN  /\ ret' = [op |-> "Read", err |-> "nil", gpm |-> FALSE, e |-> e]
                /\ reads' = reads + 1
                /\ seen' = IF r.n = EventSize /\ Filled(r) \in StreamRecords
                           THEN [seen EXCEPT ![Filled(r)] =
                                    IF @.n = 0 THEN [n |-> 1, e |-> e]
                                    ELSE [n |-> 2, e |-> @.e]]
                           ELSE seen
    /\ UNCHANGED <<nativeEndian, intSize, ospid, conf, c, g, sent, stream, peerClosed,
                   conns, text, val, renders, call>>

\* g.Read(), given what the transport read returned
Read(r) ==
    /\ g.set
    /\ calls < MaxCalls
    /\ r \in TransportReads
    /\ calls' = calls + 1
    /\ rd' = r
    /\ b' = Filled(r)
    /\ taken' = taken + r.n
    /\ ops' = <<"Read">>
    /\ IF r.err # "nil"
       THEN /\ ret' = [op |-> "Read", err |-> r.err, gpm |-> FALSE, e |-> ZeroEvent]
            /\ UNCHANGED <<reads, seen>>
       ELSE LET e == DecodeEvent(nativeEndian, intSize, Filled(r))
            IN  /\ ret' = [op |-> "Read", err |-> "nil", gpm |-> FALSE, e |-> e]
                /\ reads' = reads + 1
                /\ seen' = IF r.n = EventSize /\ Filled(r) \in StreamRecords
                           THEN [seen EXCEPT ![Filled(r)] =
                                    IF @.n = 0 THEN [n |-> 1, e |-> e]
                                    ELSE [n |-> 2, e |-> @.e]]
                           ELSE seen
    /\ UNCHANGED <<nativeEndian, intSize, ospid, conf, c, g, sent, stream, peerClosed,
                   conns, text, val, renders, call>>

\* Close as it would be if closing also put nativeEndian back to its default
Close_ResetsByteOrder ==
    /\ g.set
    /\ c' = "closed"
    /\ nativeEndian' = LittleEndian
    /\ ret' = [op |-> "Close", err |-> "nil", gpm |-> FALSE, e |-> ZeroEvent]
    /\ ops' = <<"Close">>
    /\ UNCHANGED <<intSize, ospid, conf, g, sent, stream, taken, peerClosed,
                   b, reads, calls, conns, seen, rd, text, val, renders, call>>

\* Close as it would be if it sent a byte to the daemon before closing
Close_WritesToSocket ==
    /\ g.set
    /\ c' = "closed"
    /\ sent' = IF c = "open" THEN Append(sent, 0) ELSE sent
    /\ ret' = [op |-> "Close", err |-> "nil", gpm |-> FALSE, e |-> ZeroEvent]
    /\ ops' = IF c = "open" THEN <<"Write", "Close">> ELSE <<"Close">>
    /\ UNCHANGED <<nativeEndian, intSize, ospid, conf, g, stream, taken, peerClosed,
                   b, reads, calls, conns, seen, rd, text, val, renders, call>>

\* g.Close()
Close ==
    /\ g.set
    /\ c' = "closed"
    /\ ret' = [op |-> "Close", err |-> "nil", gpm |-> FALSE, e |-> ZeroEvent]
    /\ ops' = <<"Close">>
    /\ UNCHANGED <<nativeEndian, intSize, ospid, conf, g, sent, stream, taken, peerClosed,
                   b, reads, calls, conns, seen, rd, text, val, renders, call>>

\* the caller's log.Printf("%s", event) of the Event Read just returned
Log ==
    /\ ret.op = "Read"
    /\ ret.err = "nil"
    /\ text' = EventString(ret.e)
    /\ UNCHANGED <<nativeEndian, intSize, ospid, conf, c, g, sent, stream, taken,
                   peerClosed, b, ret, reads, calls, conns, seen, rd, val, renders, ops, call>>

\* the daemon sends one more event record
DaemonSend(rec) ==
    /\ c = "open"
    /\ ~peerClosed
    /\ Len(stream) < MaxRecords * EventSize
    /\ stream' = stream \o rec
    /\ UNCHANGED <<nativeEndian, intSize, ospid, conf, c, g, sent, taken, peerClosed,
                   b, ret, reads, calls, conns, seen, rd, text, val, renders, ops, call>>

\* the daemon closes its end of the socket
DaemonClose ==
    /\ c = "open"
    /\ ~peerClosed
    /\ peerClosed' = TRUE
    /\ UNCHANGED <<nativeEndian, intSize, ospid, conf, c, g, sent, stream, taken,
                   b, ret, reads, calls, conns, seen, rd, text, val, renders, ops, call>>

DoNewGPMDial == \E cf \in Confs, x \in NewGPMResults : NewGPMDial(cf, x[1], x[2])
DoNewGPMWrite == \E w \in WriteResults : NewGPMWrite(w)
DoRead == \E r \in TransportReads : Read(r)
DoDaemonSend == \E rec \in StreamRecords : DaemonSend(rec)

Next ==
    \/ DoNewGPMDial
    \/ DoNewGPMWrite
    \/ NewGPMClose
    \/ DoRead
    \/ Close
    \/ Log
    \/ DoDaemonSend
    \/ DaemonClose

Spec == Init /\ [][Next]_vars

-----------------------------------------------------------------------------
(* Decoding on an established connection: the daemon has sent one record   *)
(* out of a wide set, and the caller reads and logs.                       *)

ByteProbes == {1, 127, 128, 255}

\* records with a single non-zero byte, at every offset
OneByteRecords ==
    {[i \in 1..EventSize |-> IF i = k THEN v ELSE 0] : k \in 1..EventSize, v \in ByteProbes}

\* a record whose bytes all have the top bit set and all differ
HighRecord == [i \in 1..EventSize |-> 255 - i]

DecodeInputs ==
    OneByteRecords
    \cup {RampRecord, HighRecord, MoveRecord(LittleEndian), MoveRecord(BigEndian),
          DragRecord(LittleEndian), DragRecord(BigEndian)}

\* the state NewGPM(DefaultConf) leaves on terminal 4, and one record sent
InitDecode ==
    /\ Platform
    /\ ospid = 1234
    /\ conf = DefaultConf
    /\ c = "open"
    /\ g = [set |-> TRUE, tty |-> Int64Of(4), pid |-> 1234]
    /\ sent = EncodeConnect(nativeEndian, DefaultConf, 1234, Int64Of(4))
    /\ stream \in DecodeInputs
    /\ taken = 0
    /\ peerClosed = FALSE
    /\ b = MakeBytes(EventSize)
    /\ ret = [op |-> "NewGPM", err |-> "nil", gpm |-> TRUE, e |-> ZeroEvent]
    /\ reads = 0
    /\ calls = 0
    /\ conns = 1
    /\ seen = [rec \in StreamRecords |-> [n |-> 0, e |-> ZeroEvent]]
    /\ rd = NoRead
    /\ text = ""
    /\ val = NoVal
    /\ renders = 0
    /\ ops = <<"Dial", "Write">>
    /\ call = NoCall

NextDecode ==
    \/ DoRead
    \/ Log

SpecDecode == InitDecode /\ [][NextDecode]_vars

-----------------------------------------------------------------------------
(* Properties of Read.                                                     *)

\* the latest call was a Read that returned an Event and no error
ReadOk == ret.op = "Read" /\ ret.err = "nil"

\* the 16-bit word of buffer b at Go offset off, in the byte order of the host
WordAt(off) ==
    IF nativeEndian = LittleEndian
    THEN b[off + 1] + 256 * b[off + 2]
    ELSE 256 * b[off + 1] + b[off + 2]

\* the same word read as a two's-complement signed value
SignedWordAt(off) == IF WordAt(off) >= 32768 THEN WordAt(off) - 65536 ELSE WordAt(off)

\* the halves of the 32-bit word of b at Go offset off, in the host's order
HighHalfAt(off) == IF nativeEndian = LittleEndian THEN WordAt(off + 2) ELSE WordAt(off)
LowHalfAt(off) == IF nativeEndian = LittleEndian THEN WordAt(off) ELSE WordAt(off + 2)

\* C1: whenever the transport read of a Read call delivered fewer than 28
\* bytes, with or without a transport error, the call returned an error and
\* the zero Event, never an Event built from the partly filled buffer.
C1_ShortReadFails ==
    (ret.op = "Read" /\ rd.n < EventSize) => (ret.err # "nil" /\ ret.e = ZeroEvent)

\* C2: after k Read calls that returned no error, exactly 28 * k bytes have
\* been taken from the transport, and the Event of the k-th such call is the
\* decoding of stream bytes [28 * (k - 1), 28 * k).
C2_Consumes28PerRead ==
    /\ taken = EventSize * reads
    /\ ReadOk =>
          ret.e = DecodeEvent(nativeEndian, intSize,
                              SubSeq(stream, EventSize * (reads - 1) + 1, EventSize * reads))

\* C4: the Buttons of a decoded Event is the byte at offset 0 of the record
\* and its Modifiers the byte at offset 1, whatever the host's byte order.
C4_ButtonsModifiersBytes ==
    ReadOk => (ret.e.Buttons = b[1] /\ ret.e.Modifiers = b[2])

\* C5: VC is the unsigned 16-bit word at offset 2; DX, DY, X, Y, WDX, WDY are
\* the signed 16-bit words at offsets 4, 6, 8, 10, 24, 26 (a word >= 0x8000
\* is worth word - 65536); Clicks is the signed 32-bit word at offset 16 and
\* Margin the unsigned 32-bit word at offset 20; all in the host's byte order.
C5_FieldsAtOffsets ==
    ReadOk =>
        /\ ret.e.VC = WordAt(2)
        /\ ret.e.DX = SignedWordAt(4)
        /\ ret.e.DY = SignedWordAt(6)
        /\ ret.e.X = SignedWordAt(8)
        /\ ret.e.Y = SignedWordAt(10)
        /\ ret.e.Clicks =
              (IF HighHalfAt(16) >= 32768 THEN HighHalfAt(16) - 65536 ELSE HighHalfAt(16))
                  * 65536 + LowHalfAt(16)
        /\ ret.e.Margin = [hi |-> HighHalfAt(20), lo |-> LowHalfAt(20)]
        /\ ret.e.Margin.hi >= 0
        /\ ret.e.WDX = SignedWordAt(24)
        /\ ret.e.WDY = SignedWordAt(26)

\* C6 as claimed: the Type of a decoded Event equals, as a number, the
\* unsigned 32-bit word at offsets 12..15 of the record.
C6_TypeIsWholeWord ==
    ReadOk => (HighHalfAt(12) = 0 /\ ret.e.Type = LowHalfAt(12))

\* C6 as amended: the Type of a decoded Event is the low 16 bits of the
\* unsigned 32-bit word at offsets 12..15, read in the host's byte order; the
\* high 16 bits of the word do not reach the Event.
C6_TypeIsLowHalf ==
    ReadOk => (ret.e.Type = LowHalfAt(12) /\ ret.e.Type \in 0..65535)

\* a Read decoded a record whose type word has bits set in both halves
C6_Witness ==
    /\ ReadOk
    /\ rd.n = EventSize
    /\ HighHalfAt(12) # 0
    /\ LowHalfAt(12) # 0
    /\ ret.e.Type = LowHalfAt(12)

\* C7: a Read whose transport read delivered 28 bytes without error returns
\* no error, and its Event is the one the first Read that got the same 28
\* bytes returned, on this connection or an earlier one.
C7_TotalDeterministic ==
    (ret.op = "Read" /\ rd.err = "nil" /\ rd.n = EventSize) =>
        /\ ret.err = "nil"
        /\ b \in StreamRecords => (seen[b].n > 0 /\ ret.e = seen[b].e)

\* the first Read of the second connection got 28 bytes that a Read of the
\* first connection had got before
C7_Witness ==
    /\ ret.op = "Read"
    /\ rd.err = "nil"
    /\ rd.n = EventSize
    /\ conns = 2
    /\ calls = 1
    /\ b \in StreamRecords
    /\ seen[b].n = 2

\* C10: the record of a move to x 190, y 28 with dy 1 and all else zero,
\* decoded and logged, reads
\* type:move[buttons:none, modifiers:0, vc:0] x:190[dx:0] y:28[dy:1], clicks:0 margin:, wdx:0, wdy:0
C10_MoveExampleText ==
    (ReadOk /\ calls = 1 /\ text # "" /\ b = MoveRecord(nativeEndian)) =>
        text = "type:move[buttons:none, modifiers:0, vc:0] x:190[dx:0] y:28[dy:1], clicks:0 margin:, wdx:0, wdy:0"

-----------------------------------------------------------------------------
(* The handshake over wide inputs: NewGPM with many configurations,        *)
(* process ids and terminals.                                              *)

U16Probes == {4660, 65535}

WideConfs ==
    {DefaultConf}
    \cup {[EventMask |-> em, DefaultMask |-> dm, MinMod |-> mm[1], MaxMod |-> mm[2]] :
             em \in {MOVE + DOWN + SINGLE, 43981}, dm \in U16Probes,
             mm \in {<<0, 65535>>, <<4660, 255>>}}

\* 1, the documented 1234, 0x12345678, and the largest 31-bit value
Pids == {1, 1234, 305419896, 2147483647}

WideLinks ==
    Links
    \cup {[err |-> FALSE, dest |-> <<"/", "d", "e", "v", "/", "p", "t", "s", "/", "1", "2">>],
          [err |-> FALSE, dest |-> <<"p", "i", "p", "e", ":", "[", "3", "0", "5", "4", "1",
                                     "9", "8", "9", "6", "]">>],
          [err |-> FALSE, dest |-> <<"/", "x", "/", "2", "1", "4", "7", "4", "8", "3", "6",
                                     "4", "7", "/">>],
          [err |-> FALSE, dest |-> <<"/", "t", "3", "a", "7">>],
          \* a file name of two digits, one of them not ASCII
          [err |-> FALSE, dest |->
              <<"/", "t", "m", "p", "/", "U+0663", "4">>],
          \* a terminal number written with a fullwidth digit
          [err |-> FALSE, dest |->
              <<"/", "d", "e", "v", "/", "t", "t", "y", "U+FF14">>],
          \* a digit followed by a superscript two
          [err |-> FALSE, dest |->
              <<"/", "d", "e", "v", "/", "t", "t", "y", "7", "U+00B2">>],
          \* no digit at all
          [err |-> FALSE, dest |->
              <<"/", "d", "e", "v", "/", "t", "t", "y", "U+2163", "U+00E9">>],
          \* a number of 32 bits with the top bit set
          [err |-> FALSE, dest |->
              <<"/", "d", "e", "v", "/", "t", "t", "y", "4", "0", "0", "0", "0",
              "0", "0", "0", "0", "0">>],
          \* 2^32 + 4
          [err |-> FALSE, dest |->
              <<"/", "d", "e", "v", "/", "t", "t", "y", "4", "2", "9", "4", "9",
              "6", "7", "3", "0", "0">>],
          \* 2^63 - 1
          [err |-> FALSE, dest |->
              <<"/", "d", "e", "v", "/", "t", "t", "y", "9", "2", "2", "3", "3",
              "7", "2", "0", "3", "6", "8", "5", "4", "7", "7", "5", "8", "0", "7">>],
          \* 2^63
          [err |-> FALSE, dest |->
              <<"/", "d", "e", "v", "/", "t", "t", "y", "9", "2", "2", "3", "3",
              "7", "2", "0", "3", "6", "8", "5", "4", "7", "7", "5", "8", "0", "8">>],
          \* more than 2^64
          [err |-> FALSE, dest |->
              <<"/", "d", "e", "v", "/", "t", "t", "y", "9", "9", "9", "9", "9",
              "9", "9", "9", "9", "9", "9", "9", "9", "9", "9", "9", "9", "9", "9",
              "9">>]}

WideNewGPMResults == DialResults(WideLinks)

InitHandshake ==
    /\ Platform
    /\ ospid \in Pids
    /\ Idle

DoNewGPMWide ==
    \E cf \in WideConfs, x \in WideNewGPMResults : NewGPMDial(cf, x[1], x[2])

NextHandshake ==
    \/ DoNewGPMWide
    \/ DoNewGPMWrite
    \/ NewGPMClose
    \/ Close

SpecHandshake == InitHandshake /\ [][NextHandshake]_vars

\* the 16-bit word of the handshake record at Go offset off, in the host's order
SentWordAt(off) ==
    IF nativeEndian = LittleEndian
    THEN sent[off + 1] + 256 * sent[off + 2]
    ELSE 256 * sent[off + 1] + sent[off + 2]

\* the 32-bit word of the handshake record at Go offset off, as a number
\* (for a word below 2^31)
SentLongAt(off) ==
    IF nativeEndian = LittleEndian
    THEN SentWordAt(off + 2) * 65536 + SentWordAt(off)
    ELSE SentWordAt(off) * 65536 + SentWordAt(off + 2)

\* the same word as its two halves
SentHalvesAt(off) ==
    IF nativeEndian = LittleEndian
    THEN [hi |-> SentWordAt(off + 2), lo |-> SentWordAt(off)]
    ELSE [hi |-> SentWordAt(off), lo |-> SentWordAt(off + 2)]

\* C3: the record a successful NewGPM has written is 16 bytes; read back in
\* the host's byte order it holds eventMask at 0, defaultMask at 2, minMod
\* at 4, maxMod at 6, the process id at 8 and the terminal at 12, each equal
\* to the input when the input has no more bits than the field; for
\* DefaultConf, process 1234 and terminal 4 on a little-endian host the bytes
\* are FF FF FF FF 00 00 FF FF D2 04 00 00 04 00 00 00.
C3_HandshakeLayout ==
    (ret.op = "NewGPM" /\ ret.err = "nil") =>
        /\ Len(sent) = 16
        /\ SentWordAt(0) = conf.EventMask
        /\ SentWordAt(2) = conf.DefaultMask
        /\ SentWordAt(4) = conf.MinMod
        /\ SentWordAt(6) = conf.MaxMod
        /\ SentLongAt(8) = ospid
        /\ SentLongAt(8) = g.pid
        /\ (g.tty[1] = 0 /\ g.tty[2] = 0) =>
               SentHalvesAt(12) = [hi |-> g.tty[3], lo |-> g.tty[4]]
        /\ (conf = DefaultConf /\ ospid = 1234 /\ g.tty = Int64Of(4)
              /\ nativeEndian = LittleEndian) =>
               sent = <<255, 255, 255, 255, 0, 0, 255, 255, 210, 4, 0, 0, 4, 0, 0, 0>>

\* NewGPM succeeded on a big-endian host with six different field values,
\* the 32-bit ones using all four bytes
C3_Witness ==
    /\ ret.op = "NewGPM"
    /\ ret.err = "nil"
    /\ nativeEndian = BigEndian
    /\ conf.EventMask = 43981
    /\ conf.DefaultMask = 4660
    /\ conf.MinMod = 4660
    /\ conf.MaxMod = 255
    /\ g.pid = 305419896
    /\ g.tty = <<0, 0, 61035, 10240>>

-----------------------------------------------------------------------------
(* The String methods over wide inputs.                                    *)

ButtonsValues == 0..255
EventTypeValues == (0..4095) \cup {32768 + MOVE + DOWN + SINGLE, 65535}
\* Margin values of a build with the given int width
MarginValues(size) ==
    {Uint32ToInt(size, [hi |-> h, lo |-> l]) :
        h \in {0, 1, 32768, 65535}, l \in (0..31) \cup {65535}}

InitString ==
    /\ Platform
    /\ ospid = 1234
    /\ conf = DefaultConf
    /\ c = "nil"
    /\ g = NoGPM
    /\ sent = << >>
    /\ stream = << >>
    /\ taken = 0
    /\ peerClosed = FALSE
    /\ b = MakeBytes(EventSize)
    /\ ret = NoReturn
    /\ reads = 0
    /\ calls = 0
    /\ conns = 0
    /\ seen = [rec \in StreamRecords |-> [n |-> 0, e |-> ZeroEvent]]
    /\ rd = NoRead
    /\ text = ""
    /\ renders = 0
    /\ ops = << >>
    /\ call = NoCall
    /\ \/ val \in {[kind |-> "Buttons", v |-> x] : x \in ButtonsValues}
       \/ val \in {[kind |-> "EventType", v |-> x] : x \in EventTypeValues}
       \/ val \in {[kind |-> "Margin", v |-> x] : x \in MarginValues(intSize)}

Render(kind, str) ==
    /\ val.kind = kind
    /\ renders < MaxRenders
    /\ renders' = renders + 1
    /\ text' = str
    /\ UNCHANGED <<nativeEndian, intSize, ospid, conf, c, g, sent, stream, taken, peerClosed,
                   b, ret, reads, calls, conns, seen, rd, val, ops, call>>

\* b.String(), e.String(), m.String() on the value val.v
RenderButtons == Render("Buttons", ButtonsString(val.v))
RenderEventType == Render("EventType", EventTypeString(val.v))
RenderMargin == Render("Margin", MarginString(val.v))

NextString ==
    \/ RenderButtons
    \/ RenderEventType
    \/ RenderMargin

SpecString == InitString /\ [][NextString]_vars

\* the flags of each type in declaration order
ButtonsTable ==
    <<[bit |-> 0, label |-> "none"], [bit |-> 1, label |-> "right"],
      [bit |-> 2, label |-> "middle"], [bit |-> 4, label |-> "left"],
      [bit |-> 8, label |-> "fourth"], [bit |-> 16, label |-> "up"],
      [bit |-> 32, label |-> "down"]>>

EventTypeTable ==
    <<[bit |-> 1, label |-> "move"], [bit |-> 2, label |-> "drag"],
      [bit |-> 4, label |-> "down"], [bit |-> 8, label |-> "up"],
      [bit |-> 16, label |-> "single"], [bit |-> 32, label |-> "double"],
      [bit |-> 64, label |-> "triple"], [bit |-> 128, label |-> "mflag"],
      [bit |-> 256, label |-> "hard"], [bit |-> 512, label |-> "enter"],
      [bit |-> 1024, label |-> "leave"]>>

MarginTable ==
    <<[bit |-> 1, label |-> "top"], [bit |-> 2, label |-> "bot"],
      [bit |-> 4, label |-> "lft"], [bit |-> 8, label |-> "rgt"]>>

\* the labels of the table whose bit is set in the number n, in table order,
\* joined by commas
RECURSIVE LabelsOf(_, _)
LabelsOf(table, n) ==
    IF Len(table) = 0 THEN ""
    ELSE LET rest == LabelsOf(Tail(table), n)
             set == (n \div table[1].bit) % 2 = 1
         IN  IF ~set THEN rest
             ELSE IF rest = "" THEN table[1].label
             ELSE table[1].label \o "," \o rest

\* C8: Buttons 0 renders as "none" and Buttons 5 as "right,left"; every
\* Buttons value renders as the comma-joined labels, in the order none,
\* right, middle, left, fourth, up, down, of its set flags.
C8_ButtonsRendering ==
    (val.kind = "Buttons" /\ renders > 0) =>
        /\ val.v = 0 => text = "none"
        /\ val.v = 5 => text = "right,left"
        /\ val.v # 0 => text = LabelsOf(Tail(ButtonsTable), val.v)

\* C9: every EventType and every Margin renders as the comma-joined labels
\* of exactly its set defined flags in declaration order, as the empty string
\* when it has none, and the same on every call; MOVE|DOWN|SINGLE renders as
\* "move,down,single", Margin 0 as "" and Margin 12 as "lft,rgt".
C9_FlagRendering ==
    /\ (val.kind = "EventType" /\ renders > 0) =>
          /\ text = LabelsOf(EventTypeTable, val.v)
          /\ val.v = MOVE + DOWN + SINGLE => text = "move,down,single"
          /\ val.v % 2048 = 0 => text = ""
    /\ (val.kind = "Margin" /\ renders > 0) =>
          /\ text = LabelsOf(MarginTable, val.v.lo)
          /\ val.v = [hi |-> 0, lo |-> 0] => text = ""
          /\ val.v = [hi |-> 0, lo |-> 12] => text = "lft,rgt"
          /\ val.v.lo % 16 = 0 => text = ""

\* an EventType with defined and undefined bits set has been rendered twice
C9_Witness ==
    /\ val.kind = "EventType"
    /\ renders = 2
    /\ val.v = 32768 + MOVE + DOWN + SINGLE
    /\ text = "move,down,single"

-----------------------------------------------------------------------------
(* Connection set-up failures, read failures, and the order of the calls   *)
(* on the socket.                                                          *)

\* C11: a NewGPM that fails returns an error and no handle, and no open
\* socket remains; when the terminal id is not found nothing is dialed or
\* written; when the dial fails nothing is written; when the write fails or
\* is partial the socket is closed; each step is tried once.
C11_NewGPMFailureIsFatal ==
    /\ (ret.op = "NewGPM" /\ ret.err # "nil") =>
          /\ ~ret.gpm
          /\ g = NoGPM
          /\ c # "open"
          /\ ret.err = "tty" => (ops = << >> /\ c = "nil" /\ sent = << >>)
          /\ ret.err = "dial" => (ops = <<"Dial">> /\ c = "nil" /\ sent = << >>)
          /\ ret.err = "write" => (ops = <<"Dial", "Write", "Close">> /\ c = "closed")
    /\ (ret.op = "NewGPM" /\ Len(sent) < ConnectSize) =>
          (ret.err # "nil" /\ ~ret.gpm /\ g = NoGPM /\ c # "open")

\* a NewGPM whose write stopped after 7 of the 16 bytes has returned
C11_Witness ==
    /\ ret.op = "NewGPM"
    /\ ret.err = "write"
    /\ Len(sent) = 7
    /\ c = "closed"
    /\ g = NoGPM

\* C12: a Read whose transport read failed (I/O failure, end of stream, or
\* a socket closed by an earlier Close) made that one transport read only
\* and returns its error with the zero Event; a Read after Close returns an
\* error and the zero Event, whatever the daemon had sent.
C12_ReadErrorSurfaces ==
    /\ (ret.op = "Read" /\ rd.err # "nil") =>
          /\ ret.err = rd.err
          /\ ret.e = ZeroEvent
          /\ ops = <<"Read">>
    /\ (ret.op = "Read" /\ c = "closed") =>
          /\ rd.err = "closed"
          /\ ret.err = "closed"
          /\ ret.e = ZeroEvent

\* after one good Read and a Close, a Read has failed although a whole
\* record was still pending
C12_Witness ==
    /\ ret.op = "Read"
    /\ c = "closed"
    /\ ret.err = "closed"
    /\ reads = 1
    /\ Len(stream) - taken >= EventSize

\* C13: a handle exists only once the 16 handshake bytes are written, by one
\* Write; every transport read happens on a socket that already carries the
\* whole handshake; only NewGPM changes what has been written, and Read and
\* Close write nothing.
C13_HandshakeOnceBeforeReads ==
    /\ [](g.set => sent = EncodeConnect(nativeEndian, conf, g.pid, g.tty))
    /\ []((ret.op = "NewGPM" /\ ret.gpm) => ops = <<"Dial", "Write">>)
    /\ [][calls' = calls + 1 => (Len(sent) = ConnectSize /\ ops' = <<"Read">>)]_vars
    /\ [](call.pc # "idle" => (~g.set /\ calls = 0))
    /\ [][sent' # sent => (conns' = conns + 1 \/ call.pc = "dialed")]_vars
    /\ [][ret'.op \in {"Read", "Close"} =>
             (sent' = sent /\ ops' \in {<<"Read">>, <<"Close">>})]_vars

\* the handle was closed after two Reads that returned events, and the
\* socket has carried the 16 handshake bytes and nothing else
C13_Witness ==
    /\ ret.op = "Close"
    /\ reads = 2
    /\ Len(sent) = ConnectSize
    /\ sent = EncodeConnect(nativeEndian, conf, g.pid, g.tty)

=============================================================================
